---- MODULE Spec2Model ----
(***************************************************************************)
(* Model of the reward accrual query of the incentive contract             *)
(* (pool-network/incentive/src/queries/get_rewards.rs) together with the   *)
(* storage it reads: the epoch counter, the flows, the sparse weight       *)
(* histories and the last-claimed-epoch records.                           *)
(*                                                                         *)
(* Storage maps (cw_storage_plus Map, BTreeMap) are functions whose DOMAIN *)
(* is the set of keys that hold an entry; may_load / get returning None is *)
(* "key \notin DOMAIN m".                                                  *)
(*                                                                         *)
(* Amounts are Uint128 in the source.  Every amount of the model stays far *)
(* below 2^128, where checked_add / checked_div by a non-zero divisor /    *)
(* try_into cannot fail; the only machine arithmetic that can go wrong     *)
(* inside these bounds is the u64 subtraction epoch_id - 1 at epoch 0.     *)
(*                                                                         *)
(* The module also models the flash loan of the vault manager              *)
(* (vault-manager/src/router/commands.rs, state.rs): the lock              *)
(* ONGOING_FLASHLOAN, the balances kept in TEMP_BALANCES and the messages  *)
(* a call hands back to be dispatched, one at a time and depth first, in   *)
(* the transaction that made the call.                                     *)
(***************************************************************************)
EXTENDS Integers, Sequences, FiniteSets, TLC

VARIABLES
    current_epoch,           \* helpers::get_current_epoch
    LAST_CLAIMED_EPOCH,      \* Map<&Addr, EpochId>
    ADDRESS_WEIGHT_HISTORY,  \* Map<(&Addr, EpochId), Uint128>, per address
    GLOBAL_WEIGHT_SNAPSHOT,  \* Map<EpochId, Uint128>
    FLOWS,                   \* flow records, keyed by flow id
    response,                \* outcome of the latest get_rewards / claim
    ONGOING_FLASHLOAN,       \* Item<bool>
    TEMP_BALANCES,           \* Map<&[u8], Uint128>, keyed by asset
    CONFIG,                  \* Item<Config>: flash_loan_enabled
    balances,                \* what the vault manager holds of every asset
    queue,                   \* messages of the transaction still to dispatch
    tx,                      \* "idle", "running" or "failed"
    saved,                   \* storage and balances when the transaction began
    txs,                     \* transactions submitted so far
    vault_response           \* outcome of the latest message dispatched

incentive_vars == <<current_epoch, LAST_CLAIMED_EPOCH, ADDRESS_WEIGHT_HISTORY,
                    GLOBAL_WEIGHT_SNAPSHOT, FLOWS, response>>

vault_vars == <<ONGOING_FLASHLOAN, TEMP_BALANCES, CONFIG, balances, queue, tx,
                saved, txs, vault_response>>

vars == <<current_epoch, LAST_CLAIMED_EPOCH, ADDRESS_WEIGHT_HISTORY,
          GLOBAL_WEIGHT_SNAPSHOT, FLOWS, response, ONGOING_FLASHLOAN,
          TEMP_BALANCES, CONFIG, balances, queue, tx, saved, txs,
          vault_response>>

----------------------------------------------------------------------------
(* Bounds of the model                                                     *)

\* the epochs of a run are 0..MaxEpoch
MaxEpoch == 3

\* weight entries one address may record in a run
MaxBonds == 2

\* epochs of a run whose global snapshot may be missing or off
MaxGaps == 1

Address == {"A", "B"}

FlowIds == {1, 2}

\* funded totals a flow may be opened with
Amounts == {11, 1000}

\* number of epochs a flow may last
Durations == {2, 3, 4}

AssetInfos == {"uwhale", "uusdc"}

\* weights an address may record
UserWeights == {50, 100}

\* what the epoch hook may leave as the global snapshot of an epoch:
\* nothing, or one recorded weight
Snapshots == {<<>>, <<0>>, <<50>>, <<100>>}

\* messages a flash loan payload may hold
MaxPayload == 2

\* transactions submitted to the vault manager in a run
MaxTxs == 2

\* the assets the vault manager has a vault for
VaultAssets == {"uwhale", "uusdc"}

\* what the vault manager holds of every vault asset at the start
InitialBalance == 20

\* the vault manager's own address, the whale lair and an outside account
Contract == "vault_manager"

WhaleLair == "whale_lair"

User == "user"

\* the fee shares of every vault, in percent
ProtocolFeeShare == 10

FlashLoanFeeShare == 10

----------------------------------------------------------------------------
(* Helpers over sparse maps                                                *)

Put(m, k, v) == [x \in DOMAIN m \cup {k} |-> IF x = k THEN v ELSE m[x]]

EmptyMap == [x \in {} |-> 0]

SetMin(S) == CHOOSE x \in S : \A y \in S : x <= y

SetMax(S) == CHOOSE x \in S : \A y \in S : y <= x

RECURSIVE SumSeq(_)
SumSeq(s) == IF s = <<>> THEN 0 ELSE Head(s) + SumSeq(Tail(s))

\* Uint128::saturating_sub
saturating_sub(a, b) == IF a >= b THEN a - b ELSE 0

----------------------------------------------------------------------------
(* get_rewards, the body of the epoch loop (lines 78-173)                  *)

\* lines 90-105: the tokens emitted up to the previous epoch.  epoch_id - 1
\* is a u64 subtraction: at epoch_id = 0 it is evaluated only when the memo
\* is non-empty, and then it either panics (overflow checks on) or wraps to
\* u64::MAX, a key the memo never holds (overflow checks off).  -1 stands
\* for the panic.
previous_emission(memo, epoch_id, wraps) ==
    IF DOMAIN memo = {} THEN 0
    ELSE IF epoch_id = 0 THEN (IF wraps THEN 0 ELSE -1)
    ELSE IF (epoch_id - 1) \in DOMAIN memo THEN memo[epoch_id - 1]
    ELSE 0

\* the emission with the tokens already emitted left out of the remainder
emission_of_total(flow, emitted_tokens, epoch_id) ==
    flow.amount \div (flow.end_epoch - epoch_id)

\* the emission at a fixed linear rate over the flow's duration
emission_linear(flow, emitted_tokens, epoch_id) ==
    flow.amount \div (flow.end_epoch - flow.start_epoch)

\* the emission counted on top of the tokens already emitted
emission_cumulative(flow, emitted_tokens, epoch_id) ==
    emitted_tokens
        + saturating_sub(flow.amount, emitted_tokens) \div (flow.end_epoch - epoch_id)

\* lines 110-114
emission_per_epoch(flow, emitted_tokens, epoch_id) ==
    saturating_sub(flow.amount, emitted_tokens) \div (flow.end_epoch - epoch_id)

\* the memo with nothing recorded
record_nothing(memo, epoch_id, emission, emitted_tokens) == memo

\* the memo with the entry of the epoch written whether it exists or not
record_always(memo, epoch_id, emission, emitted_tokens) ==
    Put(memo, epoch_id, emission + emitted_tokens)

\* lines 121-124
record_emission(memo, epoch_id, emission, emitted_tokens) ==
    IF epoch_id \notin DOMAIN memo
    THEN Put(memo, epoch_id, emission + emitted_tokens)
    ELSE memo

\* lines 134-148: <<found, weight, cursor epoch, cursor weight>>
user_weight(history, epoch_id, cursor_epoch, cursor_weight) ==
    IF epoch_id \in DOMAIN history
    THEN <<TRUE, history[epoch_id], epoch_id, history[epoch_id]>>
    ELSE IF cursor_epoch # 0 /\ cursor_epoch <= epoch_id
    THEN <<TRUE, cursor_weight, cursor_epoch, cursor_weight>>
    ELSE <<FALSE, 0, cursor_epoch, cursor_weight>>

\* the global weight carried over from the latest epoch that recorded one
global_weight_last_known(epoch_id) ==
    LET recorded == {e \in DOMAIN GLOBAL_WEIGHT_SNAPSHOT : e <= epoch_id} IN
    IF recorded = {} THEN 0 ELSE GLOBAL_WEIGHT_SNAPSHOT[SetMax(recorded)]

\* lines 151-153
global_weight_at_epoch(epoch_id) ==
    IF epoch_id \in DOMAIN GLOBAL_WEIGHT_SNAPSHOT
    THEN GLOBAL_WEIGHT_SNAPSHOT[epoch_id]
    ELSE 0

\* lines 161-163: Uint256(emission) * Decimal256::from_ratio(weight, global),
\* narrowed to Uint128.  Decimal256 keeps 18 fractional digits; every value
\* of GlobalWeights divides weight * 10^18, so the ratio is exact and the
\* product is the floor of emission * weight / global.
user_reward_at_epoch(emission, weight, global) ==
    (emission * weight) \div global

\* the sanity check without the comparison against the emission
invalid_total_only(reward, emission, flow) ==
    reward + flow.claimed_amount > flow.amount

\* lines 166-168
invalid_reward(reward, emission, flow) ==
    \/ reward > emission
    \/ reward + flow.claimed_amount > flow.amount

\* the state of the loop over the epochs of one flow
LoopStart(flow, cursor_epoch, cursor_weight) ==
    [status |-> "run", error |-> "", memo |-> flow.emitted_tokens,
     total_reward |-> 0, cursor_epoch |-> cursor_epoch,
     cursor_weight |-> cursor_weight, log |-> <<>>]

LogEntry(id, epoch_id, emitted, emission, outcome, weight, global, reward) ==
    [flow |-> id, epoch |-> epoch_id, emitted_tokens |-> emitted,
     emission |-> emission, outcome |-> outcome, user_weight |-> weight,
     global_weight |-> global, user_reward |-> reward]

\* the iteration taking the epochs before the flow's start as active
EpochStepBeforeStart(id, flow, history, st, epoch_id, wraps) ==
    IF st.status # "run" THEN st
    ELSE IF epoch_id >= flow.end_epoch THEN [st EXCEPT !.status = "break"]
    ELSE
    LET emitted == previous_emission(st.memo, epoch_id, wraps) IN
    IF emitted < 0 THEN [st EXCEPT !.status = "err", !.error = "Panic"]
    ELSE
    LET emission == emission_per_epoch(flow, emitted, epoch_id)
        memo     == record_emission(st.memo, epoch_id, emission, emitted)
        uw       == user_weight(history, epoch_id, st.cursor_epoch, st.cursor_weight)
        gw       == global_weight_at_epoch(epoch_id)
        reward   == user_reward_at_epoch(emission, uw[2], gw)
        st1      == [st EXCEPT !.memo = memo, !.cursor_epoch = uw[3],
                                !.cursor_weight = uw[4]]
    IN
    IF ~uw[1]
    THEN [st1 EXCEPT !.log = Append(@,
              LogEntry(id, epoch_id, emitted, emission, "no_user_weight", 0, 0, 0))]
    ELSE IF gw = 0
    THEN [st1 EXCEPT !.log = Append(@,
              LogEntry(id, epoch_id, emitted, emission, "no_global_weight", uw[2], 0, 0))]
    ELSE IF invalid_reward(reward, emission, flow)
    THEN [st1 EXCEPT !.status = "err", !.error = "InvalidReward",
              !.log = Append(@,
              LogEntry(id, epoch_id, emitted, emission, "invalid", uw[2], gw, reward))]
    ELSE [st1 EXCEPT !.total_reward = @ + reward,
              !.log = Append(@,
              LogEntry(id, epoch_id, emitted, emission, "rewarded", uw[2], gw, reward))]

\* one iteration of the loop of line 78
EpochStep(id, flow, history, st, epoch_id, wraps) ==
    IF st.status # "run" THEN st
    ELSE IF epoch_id < flow.start_epoch THEN st
    ELSE IF epoch_id >= flow.end_epoch THEN [st EXCEPT !.status = "break"]
    ELSE
    LET emitted == previous_emission(st.memo, epoch_id, wraps) IN
    IF emitted < 0 THEN [st EXCEPT !.status = "err", !.error = "Panic"]
    ELSE
    LET emission == emission_per_epoch(flow, emitted, epoch_id)
        memo     == record_emission(st.memo, epoch_id, emission, emitted)
        uw       == user_weight(history, epoch_id, st.cursor_epoch, st.cursor_weight)
        gw       == global_weight_at_epoch(epoch_id)
        reward   == user_reward_at_epoch(emission, uw[2], gw)
        st1      == [st EXCEPT !.memo = memo, !.cursor_epoch = uw[3],
                                !.cursor_weight = uw[4]]
    IN
    IF ~uw[1]
    THEN [st1 EXCEPT !.log = Append(@,
              LogEntry(id, epoch_id, emitted, emission, "no_user_weight", 0, 0, 0))]
    ELSE IF gw = 0
    THEN [st1 EXCEPT !.log = Append(@,
              LogEntry(id, epoch_id, emitted, emission, "no_global_weight", uw[2], 0, 0))]
    ELSE IF invalid_reward(reward, emission, flow)
    THEN [st1 EXCEPT !.status = "err", !.error = "InvalidReward",
              !.log = Append(@,
              LogEntry(id, epoch_id, emitted, emission, "invalid", uw[2], gw, reward))]
    ELSE [st1 EXCEPT !.total_reward = @ + reward,
              !.log = Append(@,
              LogEntry(id, epoch_id, emitted, emission, "rewarded", uw[2], gw, reward))]

\* for epoch_id in first..=last (line 78)
RECURSIVE EpochLoop(_, _, _, _, _, _, _)
EpochLoop(id, flow, history, st, first, last, wraps) ==
    IF first > last THEN st
    ELSE EpochLoop(id, flow, history,
                   EpochStep(id, flow, history, st, first, wraps),
                   first + 1, last, wraps)

----------------------------------------------------------------------------
(* get_rewards, the loop over the flows (lines 27-183)                     *)

\* helpers::get_available_flows: the flow records in storage order
get_available_flows == [i \in 1..Cardinality(DOMAIN FLOWS) |->
    CHOOSE id \in DOMAIN FLOWS :
        Cardinality({j \in DOMAIN FLOWS : j < id}) = i - 1]

\* helpers::get_earliest_available_weight_snapshot_for_user: the entries of
\* the address in ascending epoch order, cut after the first one
get_earliest_available_weight_snapshot_for_user(address) ==
    LET history == ADDRESS_WEIGHT_HISTORY[address] IN
    IF DOMAIN history = {} THEN <<>>
    ELSE <<  <<SetMin(DOMAIN history), history[SetMin(DOMAIN history)]>>  >>

\* no flow is ever taken as exhausted
flow_never_exhausted(flow) == FALSE

\* line 35
flow_exhausted(flow) ==
    current_epoch > flow.end_epoch /\ flow.claimed_amount = flow.amount

\* the range starting at the flow's start epoch for every address that has
\* not claimed
first_claimable_from_start(address, flow, last_epoch_user_weight_update) ==
    IF address \in DOMAIN LAST_CLAIMED_EPOCH
    THEN LAST_CLAIMED_EPOCH[address] + 1
    ELSE flow.start_epoch

\* lines 58-71
first_claimable_epoch(address, flow, last_epoch_user_weight_update) ==
    IF address \in DOMAIN LAST_CLAIMED_EPOCH
    THEN LAST_CLAIMED_EPOCH[address] + 1
    ELSE IF flow.start_epoch > last_epoch_user_weight_update
         THEN last_epoch_user_weight_update
         ELSE flow.start_epoch

\* lines 41-51: the cursor a flow starts with, <<epoch, weight>>
FlowCursor(address) ==
    LET earliest == get_earliest_available_weight_snapshot_for_user(address)
    IN IF earliest # <<>> THEN earliest[1] ELSE <<0, 0>>

\* the range of line 78 for one flow: first_claimable_epoch..=current_epoch
FlowRange(address, id) ==
    [first |-> first_claimable_epoch(address, FLOWS[id], FlowCursor(address)[1]),
     last  |-> current_epoch]

\* lines 40-173 for one flow: the final state of its epoch loop
FlowRun(address, id, wraps) ==
    LET flow   == FLOWS[id]
        cursor == FlowCursor(address)
        range  == FlowRange(address, id)
    IN EpochLoop(id, flow, ADDRESS_WEIGHT_HISTORY[address],
                 LoopStart(flow, cursor[1], cursor[2]),
                 range.first, range.last, wraps)

\* the rewards with nothing dropped
retain_all(rewards) == rewards

\* line 181
retain(rewards) == SelectSeq(rewards, LAMBDA asset : asset.amount > 0)

\* the accumulator of the loop over the flows
FlowsStart(address) ==
    [kind |-> "ok", error |-> "", address |-> address, rewards |-> <<>>,
     memos |-> EmptyMap, ranges |-> EmptyMap, log |-> <<>>]

\* the rewards with the reward of one flow merged into the entry of its asset
Merged(rewards, id, amount, info) ==
    IF \E i \in DOMAIN rewards : rewards[i].info = info
    THEN [i \in DOMAIN rewards |->
            IF rewards[i].info = info
            THEN [rewards[i] EXCEPT !.amount = @ + amount]
            ELSE rewards[i]]
    ELSE Append(rewards, [flow |-> id, amount |-> amount, info |-> info])

\* the loop body summing the rewards per asset
FlowStepPerAsset(acc, address, id, wraps) ==
    IF acc.kind # "ok" THEN acc
    ELSE IF flow_exhausted(FLOWS[id]) THEN acc
    ELSE
    LET st == FlowRun(address, id, wraps) IN
    IF st.status = "err"
    THEN [acc EXCEPT !.kind = "err", !.error = st.error,
                     !.ranges = Put(@, id, FlowRange(address, id)),
                     !.log = @ \o st.log]
    ELSE [acc EXCEPT
            !.rewards = Merged(@, id, st.total_reward, FLOWS[id].info),
            !.memos = Put(@, id, st.memo),
            !.ranges = Put(@, id, FlowRange(address, id)),
            !.log = @ \o st.log]

\* one iteration of the loop of line 33
FlowStep(acc, address, id, wraps) ==
    IF acc.kind # "ok" THEN acc
    ELSE IF flow_exhausted(FLOWS[id]) THEN acc
    ELSE
    LET st == FlowRun(address, id, wraps) IN
    IF st.status = "err"
    THEN [acc EXCEPT !.kind = "err", !.error = st.error,
                     !.ranges = Put(@, id, FlowRange(address, id)),
                     !.log = @ \o st.log]
    ELSE [acc EXCEPT
            !.rewards = Append(@, [flow |-> id, amount |-> st.total_reward,
                                   info |-> FLOWS[id].info]),
            !.memos = Put(@, id, st.memo),
            !.ranges = Put(@, id, FlowRange(address, id)),
            !.log = @ \o st.log]

RECURSIVE FlowsLoop(_, _, _, _)
FlowsLoop(acc, address, flows, wraps) ==
    IF flows = <<>> THEN acc
    ELSE FlowsLoop(FlowStep(acc, address, Head(flows), wraps),
                   address, Tail(flows), wraps)

\* the Asset of the response: the flow id is bookkeeping of the model
AsAsset(r) == [info |-> r.info, amount |-> r.amount]

AsAssets(rs) == [i \in 1..Len(rs) |-> AsAsset(rs[i])]

\* get_rewards without the same-epoch short circuit of lines 17-22
get_rewards_always_iterating(address, wraps) ==
    LET acc == FlowsLoop(FlowsStart(address), address, get_available_flows, wraps)
    IN [kind |-> acc.kind, error |-> acc.error, address |-> address,
        rewards |-> IF acc.kind = "ok" THEN AsAssets(retain(acc.rewards)) ELSE <<>>,
        per_flow |-> IF acc.kind = "ok" THEN acc.rewards ELSE <<>>,
        memos |-> acc.memos, ranges |-> acc.ranges, log |-> acc.log,
        short_circuit |-> FALSE]

\* get_rewards (lines 11-184).  The value carries, besides the Result the
\* caller sees (kind, error, rewards), what the call computed on the way:
\* the per-flow totals before line 181 (per_flow), the working copies of the
\* memos (memos), the range of line 78 of every flow that was not skipped
\* (ranges) and one log entry per epoch that reached line 89.
get_rewards(address, wraps) ==
    IF address \in DOMAIN LAST_CLAIMED_EPOCH
       /\ current_epoch = LAST_CLAIMED_EPOCH[address]
    THEN [kind |-> "ok", error |-> "", address |-> address, rewards |-> <<>>,
          per_flow |-> <<>>, memos |-> EmptyMap, ranges |-> EmptyMap,
          log |-> <<>>, short_circuit |-> TRUE]
    ELSE
    LET acc == FlowsLoop(FlowsStart(address), address, get_available_flows, wraps)
    IN [kind |-> acc.kind, error |-> acc.error, address |-> address,
        rewards |-> IF acc.kind = "ok" THEN AsAssets(retain(acc.rewards)) ELSE <<>>,
        per_flow |-> IF acc.kind = "ok" THEN acc.rewards ELSE <<>>,
        memos |-> acc.memos, ranges |-> acc.ranges, log |-> acc.log,
        short_circuit |-> FALSE]

----------------------------------------------------------------------------
(* The vault manager: flash_loan, callback, after_flashloan                *)
(* (router/commands.rs)                                                    *)

\* A message: CosmosMsg.  "flash_loan" is ExecuteMsg::FlashLoan {asset:
\* (info, amount), payload} sent by sender; "callback" is
\* ExecuteMsg::Callback(AfterFlashloan {old_asset_balance, loan_asset:
\* (info, amount), sender: to}) sent by sender; "send" moves amount of info
\* from the vault manager to the account to (a bank send, or the funds of
\* FillRewards); "receive" is a call whose effect is that amount of info
\* reaches the vault manager.  origin and stored are bookkeeping of the
\* model: whether flash_loan appended the callback, and the balances it had
\* stored then.
Msg(type, sender, to, info, amount, old_asset_balance, payload, origin, stored) ==
    [type |-> type, sender |-> sender, to |-> to, info |-> info,
     amount |-> amount, old_asset_balance |-> old_asset_balance,
     payload |-> payload, origin |-> origin, stored |-> stored]

NoMsg == Msg("none", "", "", "", 0, 0, <<>>, "", EmptyMap)

FlashLoanMsg(sender, info, amount, payload) ==
    Msg("flash_loan", sender, "", info, amount, 0, payload, "", EmptyMap)

CallbackMsg(sender, old_asset_balance, info, amount, to, origin, stored) ==
    Msg("callback", sender, to, info, amount, old_asset_balance, <<>>,
        origin, stored)

BankSend(to, info, amount) ==
    Msg("send", Contract, to, info, amount, 0, <<>>, "", EmptyMap)

Receive(info, amount) ==
    Msg("receive", User, Contract, info, amount, 0, <<>>, "", EmptyMap)

\* an Err: the writes of the call are dropped
Failed(error) ==
    [kind |-> "err", error |-> error, ONGOING_FLASHLOAN |-> ONGOING_FLASHLOAN,
     TEMP_BALANCES |-> TEMP_BALANCES, balances |-> balances, messages |-> <<>>]

\* an Ok with the storage the call leaves and the messages it hands back
Done(ongoing, temp, messages) ==
    [kind |-> "ok", error |-> "", ONGOING_FLASHLOAN |-> ongoing,
     TEMP_BALANCES |-> temp, balances |-> balances, messages |-> messages]

\* helpers::query_balances over the vaults of query_vaults
query_balances == [a \in VaultAssets |-> balances[a]]

\* Fee::compute: the share of an amount, rounded down
compute(share, amount) == (amount * share) \div 100

\* commands.rs, lines 16-68
flash_loan(sender, info, amount, payload) ==
    IF ~CONFIG.flash_loan_enabled \/ ONGOING_FLASHLOAN
    THEN Failed("Unauthorized")
    ELSE IF info \notin DOMAIN query_balances
    THEN Failed("NonExistentVault")
    ELSE
    LET temp == [a \in DOMAIN TEMP_BALANCES \cup DOMAIN query_balances |->
                    IF a \in DOMAIN query_balances
                    THEN query_balances[a] ELSE TEMP_BALANCES[a]]
        old_asset_balance == query_balances[info]
    IN Done(TRUE, temp,
            payload \o <<CallbackMsg(Contract, old_asset_balance, info, amount,
                                     sender, "flash_loan", temp)>>)

\* commands.rs, lines 93-205
after_flashloan(old_balance, info, amount, sender) ==
    LET new_balances == query_balances
        any_balance_lower ==
            \E a \in DOMAIN new_balances :
                new_balances[a] < (IF a \in DOMAIN TEMP_BALANCES
                                   THEN TEMP_BALANCES[a] ELSE 0)
    IN
    IF any_balance_lower THEN Failed("FlashLoanLoss")
    ELSE IF info \notin DOMAIN new_balances THEN Failed("NonExistentVault")
    ELSE
    LET new_asset_balance == new_balances[info]
        protocol_fee      == compute(ProtocolFeeShare, amount)
        flash_loan_fee    == compute(FlashLoanFeeShare, amount)
        required_amount   == old_balance + protocol_fee + flash_loan_fee
        profit == new_asset_balance - old_balance - protocol_fee - flash_loan_fee
    IN
    IF required_amount > new_asset_balance THEN Failed("NegativeProfit")
    ELSE Done(FALSE, EmptyMap,
              (IF profit # 0 THEN <<BankSend(sender, info, profit)>> ELSE <<>>)
                  \o <<BankSend(WhaleLair, info, protocol_fee)>>)

\* the callback taking a message of any sender
callback_of_anyone(sender, msg) ==
    after_flashloan(msg.old_asset_balance, msg.info, msg.amount, msg.to)

\* commands.rs, lines 71-89
callback(sender, msg) ==
    IF sender # Contract THEN Failed("Unauthorized")
    ELSE after_flashloan(msg.old_asset_balance, msg.info, msg.amount, msg.to)

\* funds leaving the vault manager: fails when it does not hold them, and
\* leaves its balance as it was when it sends them to itself
bank_send(msg) ==
    IF msg.amount > balances[msg.info] THEN Failed("InsufficientFunds")
    ELSE [Done(ONGOING_FLASHLOAN, TEMP_BALANCES, <<>>) EXCEPT
            !.balances = [balances EXCEPT ![msg.info] =
                            IF msg.to = Contract THEN @ ELSE @ - msg.amount]]

\* funds reaching the vault manager
bank_receive(msg) ==
    [Done(ONGOING_FLASHLOAN, TEMP_BALANCES, <<>>) EXCEPT
        !.balances = [balances EXCEPT ![msg.info] = @ + msg.amount]]

\* the dispatch of one message
Handle(msg) ==
    CASE msg.type = "flash_loan" ->
            flash_loan(msg.sender, msg.info, msg.amount, msg.payload)
      [] msg.type = "callback" -> callback(msg.sender, msg)
      [] msg.type = "send" -> bank_send(msg)
      [] msg.type = "receive" -> bank_receive(msg)

\* what a payload may hold: the loaned funds going out and coming back with
\* or without the fees and a profit, funds of the other vault going out, a
\* callback sent by the vault manager itself or by an outside contract, and
\* another flash loan
PayloadMsgs ==
    {BankSend(User, "uwhale", 10),
     Receive("uwhale", 12),
     Receive("uwhale", 13),
     BankSend(User, "uusdc", 5),
     CallbackMsg(Contract, 0, "uusdc", 10, User, "payload", EmptyMap),
     CallbackMsg(User, 0, "uusdc", 10, User, "payload", EmptyMap),
     FlashLoanMsg(Contract, "uwhale", 10, <<Receive("uwhale", 12)>>)}

Payloads == UNION {[1..n -> PayloadMsgs] : n \in 0..MaxPayload}

\* the amounts borrowed: the fees of each are not zero
LoanAmounts == {10, 20}

\* what an account may submit: a flash loan of a vault asset with any
\* payload, a flash loan of an asset without a vault, a callback
Submissions ==
    {FlashLoanMsg(User, "uwhale", amount, payload) :
        amount \in LoanAmounts, payload \in Payloads}
    \cup {FlashLoanMsg(User, "uatom", 10, <<>>),
          CallbackMsg(User, 0, "uwhale", 10, User, "payload", EmptyMap)}

NoVaultResponse ==
    [op |-> "none", kind |-> "none", error |-> "", msg |-> NoMsg,
     nested |-> FALSE, ongoing_before |-> FALSE, enabled_before |-> FALSE,
     temp_before |-> EmptyMap, balances |-> EmptyMap, messages |-> <<>>]

NoSnapshot ==
    [ONGOING_FLASHLOAN |-> FALSE, TEMP_BALANCES |-> EmptyMap,
     balances |-> EmptyMap]

\* the vault manager after instantiation
VaultStart(flash_loan_enabled) ==
    /\ ONGOING_FLASHLOAN = FALSE
    /\ TEMP_BALANCES = EmptyMap
    /\ CONFIG = [flash_loan_enabled |-> flash_loan_enabled]
    /\ balances = [a \in VaultAssets |-> InitialBalance]
    /\ queue = <<>>
    /\ tx = "idle"
    /\ saved = NoSnapshot
    /\ txs = 0
    /\ vault_response = NoVaultResponse

\* one message is dispatched; rest is what the transaction still holds.
\* The messages the call hands back run before the rest; an error fails the
\* transaction.
Run(msg, rest) ==
    LET result == Handle(msg) IN
    /\ vault_response' =
          [op |-> msg.type, kind |-> result.kind, error |-> result.error,
           msg |-> msg, nested |-> tx = "running",
           ongoing_before |-> ONGOING_FLASHLOAN,
           enabled_before |-> CONFIG.flash_loan_enabled,
           temp_before |-> TEMP_BALANCES, balances |-> balances,
           messages |-> result.messages]
    /\ ONGOING_FLASHLOAN' = result.ONGOING_FLASHLOAN
    /\ TEMP_BALANCES' = result.TEMP_BALANCES
    /\ balances' = result.balances
    /\ queue' = IF result.kind = "ok" THEN result.messages \o rest ELSE rest
    /\ tx' = IF result.kind # "ok" THEN "failed"
             ELSE IF result.messages \o rest = <<>> THEN "idle"
             ELSE "running"
    /\ UNCHANGED CONFIG

\* an account submits a message: a transaction begins with it
Submit(msg) ==
    /\ tx = "idle"
    /\ txs < MaxTxs
    /\ txs' = txs + 1
    /\ Run(msg, <<>>)
    /\ saved' = IF tx' = "idle" THEN NoSnapshot
                ELSE [ONGOING_FLASHLOAN |-> ONGOING_FLASHLOAN,
                      TEMP_BALANCES |-> TEMP_BALANCES, balances |-> balances]
    /\ UNCHANGED incentive_vars

\* the next message of the running transaction is dispatched
Step ==
    /\ tx = "running"
    /\ Run(Head(queue), Tail(queue))
    /\ saved' = IF tx' = "idle" THEN NoSnapshot ELSE saved
    /\ UNCHANGED <<txs, incentive_vars>>

\* a failed transaction is rolled back
Revert ==
    /\ tx = "failed"
    /\ ONGOING_FLASHLOAN' = saved.ONGOING_FLASHLOAN
    /\ TEMP_BALANCES' = saved.TEMP_BALANCES
    /\ balances' = saved.balances
    /\ queue' = <<>>
    /\ tx' = "idle"
    /\ saved' = NoSnapshot
    /\ vault_response' = NoVaultResponse
    /\ UNCHANGED <<CONFIG, txs, incentive_vars>>

----------------------------------------------------------------------------
(* The state machine                                                       *)

NoResponse ==
    [op |-> "none", kind |-> "none", error |-> "", address |-> "",
     rewards |-> <<>>, per_flow |-> <<>>, memos |-> EmptyMap,
     ranges |-> EmptyMap, log |-> <<>>, short_circuit |-> FALSE,
     flows |-> EmptyMap]

\* what a call leaves in response: its result and the flow records it read
Outcome(op, result) ==
    [op |-> op, kind |-> result.kind, error |-> result.error,
     address |-> result.address, rewards |-> result.rewards,
     per_flow |-> result.per_flow, memos |-> result.memos,
     ranges |-> result.ranges, log |-> result.log,
     short_circuit |-> result.short_circuit,
     flows |-> FLOWS]

\* the snapshot map after the hook of an epoch has run
Snapshot(epoch_id, snapshot) ==
    IF snapshot = <<>> THEN GLOBAL_WEIGHT_SNAPSHOT
    ELSE Put(GLOBAL_WEIGHT_SNAPSHOT, epoch_id, snapshot[1])

\* the contract at epoch 0: nothing claimed, no flow, no weight
InitWith(snapshots) ==
    /\ current_epoch = 0
    /\ LAST_CLAIMED_EPOCH = EmptyMap
    /\ ADDRESS_WEIGHT_HISTORY = [a \in Address |-> EmptyMap]
    /\ \E snapshot \in snapshots :
         GLOBAL_WEIGHT_SNAPSHOT =
            IF snapshot = <<>> THEN EmptyMap ELSE Put(EmptyMap, 0, snapshot[1])
    /\ FLOWS = EmptyMap
    /\ response = NoResponse
    /\ VaultStart(TRUE)

\* the flow records after a successful computation has been committed:
\* the memo the computation derived, claimed_amount raised by the reward
Committed(result) ==
    [id \in DOMAIN FLOWS |->
        IF \E i \in DOMAIN result.per_flow : result.per_flow[i].flow = id
        THEN LET r == result.per_flow[
                        CHOOSE i \in DOMAIN result.per_flow :
                            result.per_flow[i].flow = id]
             IN [FLOWS[id] EXCEPT
                    !.emitted_tokens = result.memos[id],
                    !.claimed_amount = @ + r.amount]
        ELSE FLOWS[id]]

\* the query marking what it computed as claimed
GetRewardsCommitting(address, wraps) ==
    LET result == get_rewards(address, wraps) IN
    /\ response' = Outcome("get_rewards", result)
    /\ IF result.kind = "ok" /\ ~result.short_circuit
       THEN /\ FLOWS' = Committed(result)
            /\ LAST_CLAIMED_EPOCH' = Put(LAST_CLAIMED_EPOCH, address, current_epoch)
       ELSE UNCHANGED <<FLOWS, LAST_CLAIMED_EPOCH>>
    /\ UNCHANGED <<current_epoch, ADDRESS_WEIGHT_HISTORY, GLOBAL_WEIGHT_SNAPSHOT>>
    /\ UNCHANGED vault_vars

\* the query: get_rewards over Deps, storage is read only
GetRewards(address, wraps) ==
    /\ response' = Outcome("get_rewards", get_rewards(address, wraps))
    /\ UNCHANGED <<current_epoch, LAST_CLAIMED_EPOCH, ADDRESS_WEIGHT_HISTORY,
                   GLOBAL_WEIGHT_SNAPSHOT, FLOWS>>
    /\ UNCHANGED vault_vars

\* the committing caller: computes the rewards and, when the computation
\* succeeds, marks them claimed
Claim(address, wraps) ==
    LET result == get_rewards(address, wraps) IN
    /\ response' = NoResponse
    /\ IF result.kind = "ok" /\ ~result.short_circuit
       THEN /\ FLOWS' = Committed(result)
            /\ LAST_CLAIMED_EPOCH' = Put(LAST_CLAIMED_EPOCH, address, current_epoch)
       ELSE UNCHANGED <<FLOWS, LAST_CLAIMED_EPOCH>>
    /\ UNCHANGED <<current_epoch, ADDRESS_WEIGHT_HISTORY, GLOBAL_WEIGHT_SNAPSHOT>>
    /\ UNCHANGED vault_vars

\* epoch lifecycle: the next epoch begins and its hook runs
NewEpoch(snapshot) ==
    /\ current_epoch < MaxEpoch
    /\ current_epoch' = current_epoch + 1
    /\ GLOBAL_WEIGHT_SNAPSHOT' = Snapshot(current_epoch + 1, snapshot)
    /\ response' = NoResponse
    /\ UNCHANGED <<LAST_CLAIMED_EPOCH, ADDRESS_WEIGHT_HISTORY, FLOWS>>
    /\ UNCHANGED vault_vars

\* flow funding: a flow starting in the current epoch is opened; flow ids
\* are handed out in increasing order
OpenFlow(id, duration, amount, info) ==
    /\ id \notin DOMAIN FLOWS
    /\ \A other \in FlowIds : other < id => other \in DOMAIN FLOWS
    /\ FLOWS' = Put(FLOWS, id,
           [start_epoch |-> current_epoch, end_epoch |-> current_epoch + duration,
            amount |-> amount, info |-> info, claimed_amount |-> 0,
            emitted_tokens |-> EmptyMap])
    /\ response' = NoResponse
    /\ UNCHANGED <<current_epoch, LAST_CLAIMED_EPOCH, ADDRESS_WEIGHT_HISTORY,
                   GLOBAL_WEIGHT_SNAPSHOT>>
    /\ UNCHANGED vault_vars

\* bonding / unbonding: the weight of an address changes in the current epoch
SetWeight(address, weight) ==
    /\ current_epoch \notin DOMAIN ADDRESS_WEIGHT_HISTORY[address]
    /\ Cardinality(DOMAIN ADDRESS_WEIGHT_HISTORY[address]) < MaxBonds
    /\ ADDRESS_WEIGHT_HISTORY' = [ADDRESS_WEIGHT_HISTORY EXCEPT
           ![address] = Put(@, current_epoch, weight)]
    /\ response' = NoResponse
    /\ UNCHANGED <<current_epoch, LAST_CLAIMED_EPOCH, GLOBAL_WEIGHT_SNAPSHOT, FLOWS>>
    /\ UNCHANGED vault_vars

\* the epochs so far whose global snapshot is missing or is not the sum of
\* the weights the addresses bond in these runs
Gaps == {e \in 0..current_epoch :
            e \notin DOMAIN GLOBAL_WEIGHT_SNAPSHOT \/ GLOBAL_WEIGHT_SNAPSHOT[e] # 100}

(* Two addresses share one flow; each bonds 50 once and the hook records   *)
(* their sum in every epoch.                                               *)

Init == InitWith({<<100>>})

Next ==
    \/ \E a \in Address, wraps \in BOOLEAN : GetRewards(a, wraps)
    \/ \E a \in Address, wraps \in BOOLEAN : Claim(a, wraps)
    \/ NewEpoch(<<100>>)
    \/ OpenFlow(1, 3, 1000, "uwhale")
    \/ \E a \in Address :
         /\ DOMAIN ADDRESS_WEIGHT_HISTORY[a] = {}
         /\ SetWeight(a, 50)

Spec == Init /\ [][Next]_vars

(* One address, two flows: the first funded with 1000 uwhale over two      *)
(* epochs, the second with 1000 of either asset or 11 uwhale.  The address *)
(* bonds 100 once and the hook records 100 or, in at most MaxGaps epochs,  *)
(* 50.                                                                     *)

InitFlows == InitWith({<<100>>})

NextFlows ==
    \/ \E wraps \in BOOLEAN : GetRewards("A", wraps)
    \/ \E wraps \in BOOLEAN : Claim("A", wraps)
    \/ \E snapshot \in {<<50>>, <<100>>} :
         /\ snapshot = <<100>> \/ Cardinality(Gaps) < MaxGaps
         /\ NewEpoch(snapshot)
    \/ \E id \in FlowIds, d \in Durations \ {3}, amt \in Amounts, info \in AssetInfos :
         /\ id = 1 => info = "uwhale" /\ amt = 1000 /\ d = 2
         /\ amt = 11 => info = "uwhale"
         /\ OpenFlow(id, d, amt, info)
    \/ /\ DOMAIN ADDRESS_WEIGHT_HISTORY["A"] = {}
       /\ SetWeight("A", 100)

SpecFlows == InitFlows /\ [][NextFlows]_vars

(* One address, one flow; a weight history of at most MaxBonds entries,    *)
(* the first of 50 or 100 and the later ones of 100, a snapshot that is    *)
(* missing or zero in at most MaxGaps epochs, and at most one committed    *)
(* claim.                                                                  *)

InitWeights == InitWith({<<>>, <<0>>, <<100>>})

NextWeights ==
    \/ \E wraps \in BOOLEAN : GetRewards("A", wraps)
    \/ \E wraps \in BOOLEAN :
         /\ "A" \notin DOMAIN LAST_CLAIMED_EPOCH
         /\ Claim("A", wraps)
    \/ \E snapshot \in {<<>>, <<0>>, <<100>>} :
         /\ snapshot = <<100>> \/ Cardinality(Gaps) < MaxGaps
         /\ NewEpoch(snapshot)
    \/ OpenFlow(1, 4, 1000, "uwhale")
    \/ \E w \in UserWeights :
         /\ DOMAIN ADDRESS_WEIGHT_HISTORY["A"] # {} => w = 100
         /\ SetWeight("A", w)

SpecWeights == InitWeights /\ [][NextWeights]_vars

(* The vault manager alone: flash loans enabled or not, MaxTxs             *)
(* transactions of any submission, each run to its end or rolled back.     *)

InitFlashLoan ==
    /\ current_epoch = 0
    /\ LAST_CLAIMED_EPOCH = EmptyMap
    /\ ADDRESS_WEIGHT_HISTORY = [a \in Address |-> EmptyMap]
    /\ GLOBAL_WEIGHT_SNAPSHOT = EmptyMap
    /\ FLOWS = EmptyMap
    /\ response = NoResponse
    /\ \E flash_loan_enabled \in BOOLEAN : VaultStart(flash_loan_enabled)

NextFlashLoan ==
    \/ \E msg \in Submissions : Submit(msg)
    \/ Step
    \/ Revert

SpecFlashLoan == InitFlashLoan /\ [][NextFlashLoan]_vars

----------------------------------------------------------------------------
(* Properties                                                              *)

\* the latest call was the query and it returned Ok
Answered == response.op = "get_rewards" /\ response.kind = "ok"

\* the entries the latest call logged for one flow
LogOf(id) == SelectSeq(response.log, LAMBDA entry : entry.flow = id)

\* C1 - memoization consistency: whenever the computations of two addresses
\* derive the emission of the same epoch of the same flow, they derive the
\* same value.  The first computation is the latest call, the second one
\* runs on the storage that call left.
C1_MemoizationConsistency ==
    Answered =>
        \A b \in Address, wraps \in BOOLEAN :
            LET other == get_rewards(b, wraps) IN
            other.kind = "ok" =>
                \A i \in DOMAIN response.log, j \in DOMAIN other.log :
                    (/\ response.log[i].flow = other.log[j].flow
                     /\ response.log[i].epoch = other.log[j].epoch)
                    => response.log[i].emission = other.log[j].emission

\* C2 - conservation: the rewards committed for a flow, which claimed_amount
\* adds up from zero, never exceed what the flow was funded with.
C2_Conservation ==
    \A id \in DOMAIN FLOWS : FLOWS[id].claimed_amount <= FLOWS[id].amount

\* C3 - in a successful call the reward of a flow, accumulated over the
\* epochs of the range, plus the flow's claimed_amount is at most the
\* funded amount.
C3_TotalWithinFunded ==
    Answered =>
        \A i \in DOMAIN response.per_flow :
            LET r == response.per_flow[i] IN
            r.amount + response.flows[r.flow].claimed_amount
                <= response.flows[r.flow].amount

\* the weight history the latest call read
HistoryRead == ADDRESS_WEIGHT_HISTORY[response.address]

\* the epochs at or before epoch_id at which the caller recorded a weight
RecordedUpTo(epoch_id) == {e \in DOMAIN HistoryRead : e <= epoch_id}

\* C4 - last-known-value lookback: for every epoch evaluated inside a flow's
\* window the weight used is the one recorded at the greatest history epoch
\* at or before it, and the epoch is skipped for want of a weight exactly
\* when there is no such entry.
C4_LastKnownWeight ==
    response.op = "get_rewards" =>
        \A i \in DOMAIN response.log :
            LET entry == response.log[i] IN
            IF RecordedUpTo(entry.epoch) = {}
            THEN entry.outcome = "no_user_weight"
            ELSE /\ entry.outcome # "no_user_weight"
                 /\ entry.user_weight = HistoryRead[SetMax(RecordedUpTo(entry.epoch))]

\* the storage of the concrete scenario: 1000 units over epochs 0..3,
\* nothing claimed, nothing memoized, global weight 100 in every epoch and
\* one address whose weight 100 is recorded at epoch 0
ScenarioStorage ==
    /\ current_epoch = 3
    /\ DOMAIN response.flows = {1}
    /\ response.flows[1] = [start_epoch |-> 0, end_epoch |-> 4, amount |-> 1000,
                            info |-> "uwhale", claimed_amount |-> 0,
                            emitted_tokens |-> EmptyMap]
    /\ GLOBAL_WEIGHT_SNAPSHOT = [e \in 0..3 |-> 100]
    /\ ADDRESS_WEIGHT_HISTORY["A"] = [e \in {0} |-> 100]
    /\ LAST_CLAIMED_EPOCH = EmptyMap

\* C5 - the concrete scenario: get_rewards at epoch 3 derives the emissions
\* 250, 250, 250, 250 (cumulative 250, 500, 750, 1000) and returns 1000 of
\* the flow's asset.
C5_ConcreteScenario ==
    (ScenarioStorage /\ response.op = "get_rewards" /\ response.address = "A")
    => /\ response.kind = "ok"
       /\ [i \in DOMAIN response.log |-> response.log[i].emission]
             = <<250, 250, 250, 250>>
       /\ response.memos[1] = [e \in 0..3 |-> 250 * (e + 1)]
       /\ response.rewards = <<[info |-> "uwhale", amount |-> 1000]>>

\* the part of the scenario the code does deliver: the emissions
ScenarioEmissions ==
    (ScenarioStorage /\ response.op = "get_rewards" /\ response.address = "A")
    => /\ response.kind = "ok"
       /\ [i \in DOMAIN response.log |-> response.log[i].emission]
             = <<250, 250, 250, 250>>
       /\ response.memos[1] = [e \in 0..3 |-> 250 * (e + 1)]

\* the latest call replayed the flow from its first epoch on an empty memo
Replayed(id) ==
    /\ response.op = "get_rewards"
    /\ id \in DOMAIN response.flows
    /\ response.flows[id].emitted_tokens = EmptyMap
    /\ LogOf(id) # <<>>
    /\ LogOf(id)[1].epoch = response.flows[id].start_epoch

\* C6 - decay monotonicity as claimed: in a replay the emission of an epoch
\* is at most the emission of the epoch before it.
C6_EmissionNonIncreasing ==
    \A id \in FlowIds : Replayed(id) =>
        \A i \in 1..(Len(LogOf(id)) - 1) :
            LogOf(id)[i + 1].emission <= LogOf(id)[i].emission

\* C6, amended - in a replay the emission of an epoch is at least the
\* emission of the epoch before it and exceeds it by at most one unit (the
\* remainder the integer division left behind).
C6_EmissionNonDecreasing ==
    \A id \in FlowIds : Replayed(id) =>
        \A i \in 1..(Len(LogOf(id)) - 1) :
            /\ LogOf(id)[i + 1].epoch = LogOf(id)[i].epoch + 1
            /\ LogOf(id)[i + 1].emission >= LogOf(id)[i].emission
            /\ LogOf(id)[i + 1].emission <= LogOf(id)[i].emission + 1

\* a replay in which the emission grew from one epoch to the next
C6_Witness ==
    \E id \in FlowIds :
        /\ Replayed(id)
        /\ \E i \in 1..(Len(LogOf(id)) - 1) :
              LogOf(id)[i + 1].emission > LogOf(id)[i].emission

\* the reward computed at a logged epoch is more than the epoch emitted, or
\* more than the flow has left
OverAward(entry) ==
    /\ entry.outcome \in {"rewarded", "invalid"}
    /\ \/ entry.user_reward > entry.emission
       \/ entry.user_reward + response.flows[entry.flow].claimed_amount
              > response.flows[entry.flow].amount

\* C7 - over-award is a hard failure: when the reward computed at some
\* evaluated epoch is an over-award, the call fails with InvalidReward and
\* returns no reward at all, and no logged reward was cut down to fit.
C7_OverAwardFails ==
    (/\ response.op = "get_rewards"
     /\ \E i \in DOMAIN response.log : OverAward(response.log[i]))
    => /\ response.kind = "err"
       /\ response.error = "InvalidReward"
       /\ response.rewards = <<>>
       /\ response.per_flow = <<>>
       /\ \A i \in DOMAIN response.log :
             response.log[i].outcome \in {"rewarded", "invalid"} =>
                response.log[i].user_reward =
                    (response.log[i].emission * response.log[i].user_weight)
                        \div response.log[i].global_weight

\* a call that had rewarded the first flow when the second one over-awarded
C7_Witness ==
    /\ response.op = "get_rewards"
    /\ response.kind = "err"
    /\ \E i \in DOMAIN response.log :
          /\ response.log[i].flow = 1
          /\ response.log[i].outcome = "rewarded"
          /\ response.log[i].user_reward > 0
    /\ \E i \in DOMAIN response.log :
          /\ response.log[i].flow = 2
          /\ OverAward(response.log[i])

\* the caller of the latest call had already claimed in the current epoch
SameEpochReclaim ==
    /\ response.op = "get_rewards"
    /\ response.address \in DOMAIN LAST_CLAIMED_EPOCH
    /\ LAST_CLAIMED_EPOCH[response.address] = current_epoch

\* C8 - no-op on same-epoch reclaim: the call returns an empty reward set
\* and has iterated no flow.
C8_SameEpochReclaimIsEmpty ==
    SameEpochReclaim =>
        /\ response.kind = "ok"
        /\ response.rewards = <<>>
        /\ response.log = <<>>
        /\ response.memos = EmptyMap

\* a same-epoch reclaim over a flow that is active in the current epoch,
\* whose global snapshot is below the weight the caller holds: an address
\* that had not claimed would fail there with InvalidReward
C8_Witness ==
    /\ SameEpochReclaim
    /\ \E id \in DOMAIN FLOWS :
          /\ FLOWS[id].start_epoch <= current_epoch
          /\ current_epoch < FLOWS[id].end_epoch
    /\ current_epoch \in DOMAIN HistoryRead
    /\ global_weight_at_epoch(current_epoch) > 0
    /\ global_weight_at_epoch(current_epoch) < HistoryRead[current_epoch]

\* what the latest call awarded for one flow, from its log
FlowTotal(id) ==
    SumSeq([i \in DOMAIN LogOf(id) |->
               IF LogOf(id)[i].outcome = "rewarded"
               THEN LogOf(id)[i].user_reward ELSE 0])

\* the assets the latest call rewarded
RewardedAssets == {response.rewards[i].info : i \in DOMAIN response.rewards}

\* C9 - aggregation per asset as claimed: one entry per rewarded asset,
\* holding the sum of the rewards of the flows that pay that asset.
C9_OneEntryPerAsset ==
    Answered =>
        /\ \A i, j \in DOMAIN response.rewards :
              response.rewards[i].info = response.rewards[j].info => i = j
        /\ \A i \in DOMAIN response.rewards :
              response.rewards[i].amount =
                  SumSeq([k \in DOMAIN response.per_flow |->
                      IF response.per_flow[k].info = response.rewards[i].info
                      THEN response.per_flow[k].amount ELSE 0])

\* the flows the latest call awarded something for
RewardedFlows == {id \in DOMAIN response.flows : FlowTotal(id) > 0}

\* the k-th flow, in flow order, the latest call awarded something for
RewardedFlow(k) ==
    CHOOSE id \in RewardedFlows :
        Cardinality({other \in RewardedFlows : other < id}) = k - 1

\* C9, amended - one entry per evaluated flow with a non-zero reward, in
\* flow order, holding that flow's asset and that flow's reward: flows that
\* pay the same asset keep separate entries.
C9_OneEntryPerFlow ==
    Answered =>
        /\ Len(response.rewards) = Cardinality(RewardedFlows)
        /\ \A k \in DOMAIN response.rewards :
              response.rewards[k] =
                  [info |-> response.flows[RewardedFlow(k)].info,
                   amount |-> FlowTotal(RewardedFlow(k))]

\* a response with two entries of the same asset
C9_Witness ==
    /\ Answered
    /\ \E i, j \in DOMAIN response.rewards :
          i # j /\ response.rewards[i].info = response.rewards[j].info

\* the epochs of a flow the latest call visited and found not memoized
FirstVisits(id) ==
    {LogOf(id)[i].epoch : i \in DOMAIN LogOf(id)}
        \ DOMAIN response.flows[id].emitted_tokens

\* C10 - memo write-back as claimed: after a successful computation the
\* flow record holds an entry for every epoch the computation visited.
C10_MemoWrittenToFlow ==
    Answered =>
        \A id \in DOMAIN response.flows :
            \A e \in FirstVisits(id) : e \in DOMAIN FLOWS[id].emitted_tokens

\* C10, amended - after a successful get_rewards the working copy of the
\* memo holds, for every epoch visited and not memoized before, the tokens
\* emitted before that epoch plus the emission of that epoch, and the flow
\* records in storage are as they were before the call.
C10_MemoWrittenToWorkingCopy ==
    Answered =>
        /\ FLOWS = response.flows
        /\ \A i \in DOMAIN response.log :
              LET entry == response.log[i] IN
              entry.epoch \in FirstVisits(entry.flow) =>
                 /\ entry.flow \in DOMAIN response.memos
                 /\ entry.epoch \in DOMAIN response.memos[entry.flow]
                 /\ response.memos[entry.flow][entry.epoch] =
                        entry.emitted_tokens + entry.emission

\* a successful call that derived an entry the flow record did not hold
C10_Witness ==
    /\ Answered
    /\ \E id \in DOMAIN response.flows : FirstVisits(id) # {}

\* C11 - zero-weight skip: an evaluated epoch with no weight entry of the
\* caller at or before it contributes zero reward and causes no error, and a
\* caller with an empty weight history gets an empty reward set.
C11_ZeroWeightSkip ==
    response.op = "get_rewards" =>
        /\ \A i \in DOMAIN response.log :
              RecordedUpTo(response.log[i].epoch) = {} =>
                 /\ response.log[i].outcome = "no_user_weight"
                 /\ response.log[i].user_reward = 0
        /\ DOMAIN HistoryRead = {} =>
              /\ response.kind = "ok"
              /\ response.rewards = <<>>

\* what the code does deliver of the zero-weight skip: the same, unless the
\* call was aborted by the u64 subtraction of line 101 at epoch 0
ZeroWeightSkipUnlessUnderflow ==
    (response.op = "get_rewards" /\ response.error # "Panic") =>
        /\ \A i \in DOMAIN response.log :
              RecordedUpTo(response.log[i].epoch) = {} =>
                 /\ response.log[i].outcome = "no_user_weight"
                 /\ response.log[i].user_reward = 0
        /\ DOMAIN HistoryRead = {} =>
              /\ response.kind = "ok"
              /\ response.rewards = <<>>

\* the global snapshot of an epoch is zero or was never recorded
NoGlobalWeight(epoch_id) ==
    \/ epoch_id \notin DOMAIN GLOBAL_WEIGHT_SNAPSHOT
    \/ GLOBAL_WEIGHT_SNAPSHOT[epoch_id] = 0

\* the latest call evaluated the epoch after the one of its i-th log entry,
\* for the same flow
EvaluatedNext(i) ==
    /\ i < Len(response.log)
    /\ response.log[i + 1].flow = response.log[i].flow
    /\ response.log[i + 1].epoch = response.log[i].epoch + 1

\* C12 - zero global weight skip: an evaluated epoch whose global weight is
\* zero or unrecorded contributes zero reward, is not where the call fails,
\* and is followed by the evaluation of the next epoch of the flow whenever
\* that epoch is inside the range and the flow's window.
C12_ZeroGlobalWeightSkip ==
    response.op = "get_rewards" =>
        \A i \in DOMAIN response.log :
            LET entry == response.log[i] IN
            NoGlobalWeight(entry.epoch) =>
               /\ entry.outcome \in {"no_user_weight", "no_global_weight"}
               /\ entry.user_reward = 0
               /\ (/\ entry.epoch < response.ranges[entry.flow].last
                   /\ entry.epoch + 1 < response.flows[entry.flow].end_epoch)
                  => EvaluatedNext(i)

\* a call that skipped an epoch for want of a global weight, with the
\* caller holding weight there, and rewarded the next epoch of the flow
C12_Witness ==
    /\ response.op = "get_rewards"
    /\ \E i \in DOMAIN response.log :
          /\ response.log[i].outcome = "no_global_weight"
          /\ response.log[i].user_weight > 0
          /\ response.log[i].emission > 0
          /\ EvaluatedNext(i)
          /\ response.log[i + 1].outcome = "rewarded"
          /\ response.log[i + 1].user_reward > 0

\* the flows the latest call pushed a reward for, zero or not
PushedFlows == {response.per_flow[k].flow : k \in DOMAIN response.per_flow}

\* the flows the latest call pushed a zero reward for
ZeroFlows ==
    {response.per_flow[k].flow :
        k \in {j \in DOMAIN response.per_flow : response.per_flow[j].amount = 0}}

\* C13 - no zero-value reward lines: every entry of the response has an
\* amount above zero, and the response has one entry less than the flows
\* evaluated for every flow whose total reward was exactly zero.
C13_NoZeroValueLines ==
    response.op = "get_rewards" =>
        /\ \A i \in DOMAIN response.rewards : response.rewards[i].amount > 0
        /\ Len(response.rewards) =
              Cardinality(PushedFlows) - Cardinality(ZeroFlows)
        /\ \A id \in ZeroFlows : FlowTotal(id) = 0

\* a successful call that evaluated one flow to zero and another one to a
\* reward
C13_Witness ==
    /\ Answered
    /\ ZeroFlows # {}
    /\ response.rewards # <<>>

\* what a claim goes by in the flow records: claimed_amount, the window and
\* the funded amount of every flow
FlowClaimState ==
    [id \in DOMAIN FLOWS |->
        <<FLOWS[id].claimed_amount, FLOWS[id].start_epoch,
          FLOWS[id].end_epoch, FLOWS[id].amount>>]

\* C14 - get_rewards is pure with respect to claim state: a step that ends
\* with the outcome of a get_rewards call, successful or failed, leaves the
\* last-claimed-epoch records, the weight history, the global snapshots and
\* every flow's claimed_amount, window and funded amount as they were.
C14_QueryLeavesClaimState ==
    [][response'.op = "get_rewards" =>
          /\ UNCHANGED <<current_epoch, LAST_CLAIMED_EPOCH,
                         ADDRESS_WEIGHT_HISTORY, GLOBAL_WEIGHT_SNAPSHOT>>
          /\ FlowClaimState' = FlowClaimState]_vars

\* a successful call that computed a reward and a memo entry, which a
\* commit would have stored
C14_Witness ==
    /\ Answered
    /\ response.rewards # <<>>
    /\ \E id \in DOMAIN response.memos :
          response.memos[id] # response.flows[id].emitted_tokens
    /\ response.address \notin DOMAIN LAST_CLAIMED_EPOCH

\* the flow's end epoch has passed and all it was funded with is claimed
EndedAndFullyClaimed(flow) ==
    current_epoch > flow.end_epoch /\ flow.claimed_amount = flow.amount

\* the flows in storage order, without those ended and fully claimed
LiveFlows ==
    SelectSeq(get_available_flows,
              LAMBDA id : ~EndedAndFullyClaimed(FLOWS[id]))

\* C15 - exhausted-flow skip: a flow that has ended and is fully claimed is
\* not replayed (no epoch of it is evaluated, no range is resolved, no memo
\* is derived), has no reward entry, and the outcome of the call, failure
\* included, is the outcome of the computation over the other flows alone.
C15_ExhaustedFlowSkipped ==
    (response.op = "get_rewards" /\ ~response.short_circuit) =>
        /\ \A id \in DOMAIN response.flows :
              EndedAndFullyClaimed(response.flows[id]) =>
                 /\ LogOf(id) = <<>>
                 /\ id \notin DOMAIN response.ranges
                 /\ id \notin DOMAIN response.memos
                 /\ id \notin PushedFlows
        /\ \E wraps \in BOOLEAN :
              LET acc == FlowsLoop(FlowsStart(response.address),
                                   response.address, LiveFlows, wraps)
              IN /\ acc.kind = response.kind
                 /\ acc.error = response.error
                 /\ acc.log = response.log
                 /\ acc.ranges = response.ranges
                 /\ response.kind = "ok" => acc.rewards = response.per_flow

\* a call that found one flow ended and fully claimed and rewarded another
C15_Witness ==
    /\ Answered
    /\ ~response.short_circuit
    /\ \E id \in DOMAIN response.flows :
          EndedAndFullyClaimed(response.flows[id])
    /\ response.rewards # <<>>

\* the memo entry the latest call held for the epoch before the one of its
\* i-th log entry, <<value>>, or <<>> when it held none: the entry of the
\* flow record, or else the one the call itself derived one epoch earlier
MemoBefore(i) ==
    LET entry  == response.log[i]
        stored == response.flows[entry.flow].emitted_tokens
    IN IF (entry.epoch - 1) \in DOMAIN stored
       THEN <<stored[entry.epoch - 1]>>
       ELSE IF /\ i > 1
               /\ response.log[i - 1].flow = entry.flow
               /\ response.log[i - 1].epoch = entry.epoch - 1
       THEN <<response.log[i - 1].emitted_tokens + response.log[i - 1].emission>>
       ELSE <<>>

\* C16 - per-epoch emission formula: every evaluated epoch e lies in the
\* flow's window and its emission is max(amount - emitted_so_far, 0) div
\* (end_epoch - e), with emitted_so_far the memo entry of e - 1 when there
\* is one and zero otherwise.
C16_EmissionFormula ==
    response.op = "get_rewards" =>
        \A i \in DOMAIN response.log :
            LET entry == response.log[i]
                flow  == response.flows[entry.flow]
                emitted_so_far ==
                    IF MemoBefore(i) # <<>> THEN MemoBefore(i)[1] ELSE 0
            IN /\ flow.start_epoch <= entry.epoch
               /\ entry.epoch < flow.end_epoch
               /\ entry.emitted_tokens = emitted_so_far
               /\ entry.emission =
                     (IF flow.amount >= emitted_so_far
                      THEN flow.amount - emitted_so_far ELSE 0)
                         \div (flow.end_epoch - entry.epoch)

\* a call that evaluated an epoch on top of a memo entry of the flow record
\* and another one, of a flow with a memo, whose previous epoch had none
C16_Witness ==
    /\ response.op = "get_rewards"
    /\ \E i \in DOMAIN response.log :
          /\ (response.log[i].epoch - 1)
                 \in DOMAIN response.flows[response.log[i].flow].emitted_tokens
          /\ response.log[i].emitted_tokens > 0
          /\ response.log[i].emission > 0
    /\ \E i \in DOMAIN response.log :
          /\ response.flows[response.log[i].flow].emitted_tokens # EmptyMap
          /\ MemoBefore(i) = <<>>

\* the caller of the latest call has claimed before
ClaimedBefore == response.address \in DOMAIN LAST_CLAIMED_EPOCH

CursorEpoch ==
    IF DOMAIN HistoryRead = {} THEN 0 ELSE SetMin(DOMAIN HistoryRead)

SecondRun(id, wraps) ==
    LET flow == [response.flows[id] EXCEPT !.emitted_tokens = response.memos[id]]
    IN EpochLoop(id, flow, HistoryRead,
                 LoopStart(flow, FlowCursor(response.address)[1],
                           FlowCursor(response.address)[2]),
                 response.ranges[id].first, response.ranges[id].last, wraps)

\* C18 - memo writes are idempotent: the memo a successful computation
\* derives keeps every entry the flow record held, a second run of the
\* computation on the derived memo leaves it as it is, and what the second
\* run computes for an epoch the first run wrote is the value written.
C18_MemoWritesIdempotent ==
    Answered =>
        \A id \in DOMAIN response.memos :
            /\ \A e \in DOMAIN response.flows[id].emitted_tokens :
                  /\ e \in DOMAIN response.memos[id]
                  /\ response.memos[id][e] = response.flows[id].emitted_tokens[e]
            /\ \A wraps \in BOOLEAN :
                  LET again == SecondRun(id, wraps) IN
                  /\ again.memo = response.memos[id]
                  /\ \A i \in DOMAIN again.log :
                        again.log[i].epoch \in FirstVisits(id) =>
                           again.log[i].emitted_tokens + again.log[i].emission
                               = response.memos[id][again.log[i].epoch]

\* a successful call that evaluated a memoized epoch for which it derived
\* another value than the memo holds, and a non-memoized one
C18_Witness ==
    /\ Answered
    /\ \E i \in DOMAIN response.log :
          LET entry  == response.log[i]
              stored == response.flows[entry.flow].emitted_tokens
          IN /\ entry.epoch \in DOMAIN stored
             /\ entry.emitted_tokens + entry.emission # stored[entry.epoch]
             /\ FirstVisits(entry.flow) # {}

\* the values of a memo do not decrease with the epoch and none of them is
\* above the funded amount
MemoWithinBounds(memo, amount) ==
    /\ \A e1, e2 \in DOMAIN memo : e1 <= e2 => memo[e1] <= memo[e2]
    /\ \A e \in DOMAIN memo : memo[e] <= amount

Window(flow) == flow.start_epoch .. (flow.end_epoch - 1)

\* the flow at which the latest call failed: the last one it resolved a
\* range for
FailedFlow == SetMax(DOMAIN response.ranges)

\* C20 - active window: every epoch the latest call evaluated, every memo
\* entry it derived and every reward it counted belongs to an epoch of the
\* flow's window, and a call that failed did so at an epoch of a window,
\* never for having run past the end of a flow.
C20_ActiveWindow ==
    response.op = "get_rewards" =>
        /\ \A i \in DOMAIN response.log :
              response.log[i].epoch \in Window(response.flows[response.log[i].flow])
        /\ \A id \in DOMAIN response.memos :
              (DOMAIN response.memos[id]
                  \ DOMAIN response.flows[id].emitted_tokens)
                  \subseteq Window(response.flows[id])
        /\ \A k \in DOMAIN response.per_flow :
              response.per_flow[k].amount = FlowTotal(response.per_flow[k].flow)
        /\ response.kind = "err" =>
              \/ /\ response.error = "InvalidReward"
                 /\ response.log # <<>>
                 /\ response.log[Len(response.log)].outcome = "invalid"
                 /\ response.log[Len(response.log)].flow = FailedFlow
              \/ /\ response.error = "Panic"
                 /\ response.ranges[FailedFlow].first = 0
                 /\ 0 \in Window(response.flows[FailedFlow])
                 /\ LogOf(FailedFlow) = <<>>

\* a successful call whose range for a flow began before the flow's start
\* and ended at or after its end, and which evaluated every epoch of the
\* window in between and derived their memo entries
C20_Witness ==
    /\ Answered
    /\ \E id \in DOMAIN response.ranges :
          /\ response.ranges[id].first < response.flows[id].start_epoch
          /\ response.ranges[id].last >= response.flows[id].end_epoch
          /\ FirstVisits(id) = Window(response.flows[id])

\* C21 - the emission step never fails arithmetically: the divisor
\* end_epoch - epoch_id of every evaluated epoch is at least 1, and no call
\* is aborted by the lookup of the entry of epoch_id - 1, at epoch 0 and
\* with a non-empty memo included.
C21_EmissionStepNeverFails ==
    response.op = "get_rewards" =>
        /\ \A i \in DOMAIN response.log :
              response.flows[response.log[i].flow].end_epoch
                  - response.log[i].epoch >= 1
        /\ response.error # "Panic"

\* what the code does deliver of it: the divisor is at least 1, and the
\* lookup aborts a call only at epoch 0 of a flow that starts at epoch 0 and
\* whose memo is not empty
EmissionStepFailsAtEpochZeroOnly ==
    response.op = "get_rewards" =>
        /\ \A i \in DOMAIN response.log :
              response.flows[response.log[i].flow].end_epoch
                  - response.log[i].epoch >= 1
        /\ response.error = "Panic" =>
              /\ response.ranges[FailedFlow].first = 0
              /\ response.flows[FailedFlow].start_epoch = 0
              /\ response.flows[FailedFlow].emitted_tokens # EmptyMap

\* the latest call replayed every epoch of the flow's window, from its
\* first epoch on an empty memo, and returned Ok
ReplayedInFull(id) ==
    /\ Answered
    /\ Replayed(id)
    /\ {LogOf(id)[i].epoch : i \in DOMAIN LogOf(id)} = Window(response.flows[id])

\* C22 - full emission by the last epoch: after a replay of the whole
\* window the cumulative emission recorded for epoch end_epoch - 1 is the
\* funded amount exactly, and so is the sum of the per-epoch emissions.
C22_FullEmission ==
    \A id \in FlowIds : ReplayedInFull(id) =>
        /\ response.memos[id][response.flows[id].end_epoch - 1]
              = response.flows[id].amount
        /\ SumSeq([i \in DOMAIN LogOf(id) |-> LogOf(id)[i].emission])
              = response.flows[id].amount

\* a replay of the whole window of a flow whose amount its duration does
\* not divide
C22_Witness ==
    \E id \in FlowIds :
        /\ ReplayedInFull(id)
        /\ response.flows[id].amount
              % (response.flows[id].end_epoch - response.flows[id].start_epoch) # 0

----------------------------------------------------------------------------
(* The flash loan of the vault manager                                     *)

\* the call the last step dispatched
FlashLoanCalled == vault_response.op = "flash_loan"
CallbackCalled == vault_response.op = "callback"
Succeeded == vault_response.kind = "ok"

\* the flash loans in flight: those whose settlement, the callback
\* flash_loan appended, the running transaction still holds
InFlight ==
    IF tx = "running"
    THEN Cardinality({i \in DOMAIN queue :
            queue[i].type = "callback" /\ queue[i].origin = "flash_loan"})
    ELSE 0

\* C23: flash_loan fails with Unauthorized whenever flash loans are disabled
\* or ONGOING_FLASHLOAN is true, a successful flash_loan leaves
\* ONGOING_FLASHLOAN true, so at most one flash loan is in flight at any time
\* and no flash_loan dispatched from a payload succeeds.
C23_FlashLoanLock ==
    /\ (FlashLoanCalled /\ (~vault_response.enabled_before
                            \/ vault_response.ongoing_before))
          => (vault_response.kind = "err"
              /\ vault_response.error = "Unauthorized")
    /\ (FlashLoanCalled /\ Succeeded) => ONGOING_FLASHLOAN
    /\ InFlight <= 1
    /\ (FlashLoanCalled /\ vault_response.nested) => ~Succeeded

\* The part of C23 about single calls: the guard of flash_loan, the flag it
\* sets, and that the flag goes back to false only by a successful callback
\* or the rollback of the transaction.
FlashLoanGuard ==
    [][/\ (FlashLoanCalled' /\ (~vault_response'.enabled_before
                                \/ vault_response'.ongoing_before))
             => (vault_response'.kind = "err"
                 /\ vault_response'.error = "Unauthorized")
       /\ (FlashLoanCalled' /\ Succeeded') => ONGOING_FLASHLOAN'
       /\ (ONGOING_FLASHLOAN /\ ~ONGOING_FLASHLOAN')
             => \/ CallbackCalled' /\ Succeeded'
                \/ tx = "failed"]_vars

\* the call that settles a flash loan: the callback flash_loan appended
Settlement == CallbackCalled /\ vault_response.msg.origin = "flash_loan"

\* the fees and the profit of the settled loan, from the balances at the call
FeesOf(msg) ==
    compute(ProtocolFeeShare, msg.amount) + compute(FlashLoanFeeShare, msg.amount)

ProfitOf(msg) ==
    vault_response.balances[msg.info] - msg.old_asset_balance - FeesOf(msg)

\* the messages to the sender of the loan that a call handed back
ProfitMessages ==
    {i \in DOMAIN vault_response.messages :
        vault_response.messages[i].to = vault_response.msg.to}

\* C24: the settlement of a flash loan succeeds only if every vault asset's
\* balance is at least the balance flash_loan stored before the loan and the
\* loaned asset's balance is at least old_balance + protocol_fee +
\* flash_loan_fee; the profit it pays to the sender is new_balance -
\* old_balance - protocol_fee - flash_loan_fee, and it pays none when that
\* is zero.
C24_SettlementNeverLosesFunds ==
    (Settlement /\ Succeeded) =>
        LET msg == vault_response.msg IN
        /\ \A a \in DOMAIN msg.stored :
              vault_response.balances[a] >= msg.stored[a]
        /\ vault_response.balances[msg.info]
              >= msg.old_asset_balance + FeesOf(msg)
        /\ ProfitOf(msg) # 0 =>
              vault_response.messages[1]
                  = BankSend(msg.to, msg.info, ProfitOf(msg))
        /\ ProfitOf(msg) = 0 => ProfitMessages = {}

\* The part of C24 about one call: after_flashloan compares with what
\* TEMP_BALANCES holds at the call, zero for an asset it does not hold, and
\* fails with FlashLoanLoss or NegativeProfit otherwise.
SettlementAgainstStorage ==
    CallbackCalled /\ vault_response.msg.sender = Contract =>
        LET msg == vault_response.msg
            temp == vault_response.temp_before
            loss == \E a \in VaultAssets :
                        vault_response.balances[a]
                            < (IF a \in DOMAIN temp THEN temp[a] ELSE 0)
            short == vault_response.balances[msg.info]
                        < msg.old_asset_balance + FeesOf(msg)
        IN
        /\ loss => vault_response.error = "FlashLoanLoss"
        /\ (~loss /\ short) => vault_response.error = "NegativeProfit"
        /\ (~loss /\ ~short) =>
              /\ Succeeded
              /\ ProfitOf(msg) # 0 =>
                    vault_response.messages[1]
                        = BankSend(msg.to, msg.info, ProfitOf(msg))
              /\ ProfitOf(msg) = 0 => ProfitMessages = {}

\* a callback whose sender is not the vault manager
ForeignCallback == CallbackCalled /\ vault_response.msg.sender # Contract

\* C25: a callback whose sender is not the contract's own address fails with
\* Unauthorized, hands back no message and leaves ONGOING_FLASHLOAN,
\* TEMP_BALANCES and the balances as they were: it neither settles nor clears
\* a flash loan.
C25_CallbackOnlyByContract ==
    ForeignCallback =>
        /\ vault_response.kind = "err"
        /\ vault_response.error = "Unauthorized"
        /\ vault_response.messages = <<>>
        /\ ONGOING_FLASHLOAN = vault_response.ongoing_before
        /\ TEMP_BALANCES = vault_response.temp_before
        /\ balances = vault_response.balances

\* a callback of another sender was refused while a flash loan was ongoing
\* and its stored balances were held
C25_Witness ==
    /\ ForeignCallback
    /\ vault_response.error = "Unauthorized"
    /\ vault_response.ongoing_before
    /\ ONGOING_FLASHLOAN
    /\ DOMAIN TEMP_BALANCES = VaultAssets

====
